---- MODULE Spec2Model ----
(***************************************************************************)
(* Fitness & Nutrition Planner: the Streamlit session of app.py and the    *)
(* plan-generation engine it calls.                                        *)
(*                                                                         *)
(* app.py is the session layer: the session state, the "Calculate My       *)
(* Needs" handler, the meal-plan display with its "Show alternatives" and  *)
(* "Select" buttons, "Save Current Meal Plan", "Generate Workout Plan",    *)
(* Login and Logout.  The engine (utils.meal_planning,                     *)
(* utils.meal_customization, utils.workout_planner) is imported by app.py  *)
(* and is modelled here from its specification: Content Library,           *)
(* Constraint Matcher, Meal Plan Generator, Alternative Finder, Workout    *)
(* Plan Generator and Plan Validator.                                      *)
(***************************************************************************)
EXTENDS Integers, Sequences, FiniteSets, TLC

VARIABLES
    is_authenticated,     \* st.session_state.is_authenticated
    user_profile,         \* st.session_state.user_profile
    nutritional_targets,  \* st.session_state.nutritional_targets
    current_meal_plan,    \* st.session_state.current_meal_plan
    shown,                \* what the last run of display_meal_plan rendered
                          \* under a clicked "Show alternatives" button
    selects,              \* alternative selections applied to the current plan
    first_gen,            \* history: the first successful generation request
    m_in,                 \* Constraint Matcher harness: the request
    m_out,                \* Constraint Matcher harness: the result
    user_id,              \* st.session_state.user_id
    username,             \* st.session_state.username
    current_schedule,     \* st.session_state.current_schedule
    w_last,               \* the last "Generate Workout Plan" run: its request
                          \* and what became of it
    saved_schedule,       \* storage: the workout schedule saved last
    saved_meal_plan       \* storage: the meal plan saved last

\* What the nutrition handlers leave alone.
beyond_meals == <<user_id, username, current_schedule, w_last,
                  saved_schedule, saved_meal_plan>>

vars == <<is_authenticated, user_profile, nutritional_targets,
          current_meal_plan, shown, selects, first_gen, m_in, m_out,
          beyond_meals>>

session == <<is_authenticated, user_profile, nutritional_targets,
             current_meal_plan, shown, selects, first_gen, beyond_meals>>

\* Python's None, and a number or string in a field that may hold None.
None == [none |-> TRUE]

Some(v) == [value |-> v]

-----------------------------------------------------------------------------
(* Bounds of the model *)

\* Alternative selections applied to one plan before it is regenerated.
MaxSelects == 2

-----------------------------------------------------------------------------
(* Content Library *)

\* The days of a weekly plan.
Days == <<"Monday", "Tuesday", "Wednesday", "Thursday", "Friday",
          "Saturday", "Sunday">>

DaySet == {Days[i] : i \in 1..Len(Days)}

\* The meal slots of a day.
MealTypes == <<"Breakfast", "Lunch", "Dinner">>

MealTypeSet == {MealTypes[i] : i \in 1..Len(MealTypes)}

MealItem(n, mt, c, p, cu, di) ==
    [name |-> n, meal_type |-> mt, calories |-> c, protein |-> p,
     cuisine_tags |-> cu, dietary_tags |-> di]

\* The meal library, in insertion order.  Dinner holds no Vegan item, no item
\* carries the Gluten-Free tag, and Tofu Stir Fry and Lentil Soup have the
\* same numeric profile.
MealLibrary ==
    << MealItem("Oatmeal Bowl", "Breakfast", 350, 12, {"American"}, {"Vegetarian", "Vegan"}),
       MealItem("Veggie Omelette", "Breakfast", 400, 25, {"American"}, {"Vegetarian"}),
       MealItem("Greek Yogurt Parfait", "Breakfast", 300, 20, {"Mediterranean"}, {"Vegetarian"}),
       MealItem("Chicken Congee", "Breakfast", 450, 30, {"Asian"}, {}),
       MealItem("Chicken Salad", "Lunch", 500, 40, {"American"}, {}),
       MealItem("Tofu Stir Fry", "Lunch", 450, 25, {"Asian"}, {"Vegetarian", "Vegan"}),
       MealItem("Lentil Soup", "Lunch", 450, 25, {"Mediterranean"}, {"Vegetarian", "Vegan"}),
       MealItem("Grilled Salmon", "Dinner", 600, 45, {"Mediterranean"}, {}),
       MealItem("Beef Teriyaki", "Dinner", 650, 40, {"Asian"}, {}),
       MealItem("Paneer Curry", "Dinner", 550, 30, {"Indian"}, {"Vegetarian"}) >>

MealItems == {MealLibrary[i] : i \in 1..Len(MealLibrary)}

\* The meal_type-specific slice of the library.
OfMealType(it, mt) == it.meal_type = mt

MealPool(mt) == SelectSeq(MealLibrary, LAMBDA it : OfMealType(it, mt))

-----------------------------------------------------------------------------
(* Constraint Matcher *)

Abs(x) == IF x < 0 THEN -x ELSE x

\* Number of meal slots a daily target is split over (target / 3).
SlotsPerDay == 3

\* Weights of the calorie and protein distances in the score.
CalorieWeight == 1

ProteinWeight == 1

\* A dietary restriction other than "None" is met by an item carrying its tag.
PassesDietary(it, restrictions) ==
    \A r \in restrictions \ {"None"} : r \in it.dietary_tags

\* "Any" accepts every cuisine; otherwise the item needs a preferred cuisine.
PassesCuisine(it, cuisines) ==
    "Any" \in cuisines \/ it.cuisine_tags \cap cuisines # {}

PassesFilters(it, restrictions, cuisines) ==
    PassesDietary(it, restrictions) /\ PassesCuisine(it, cuisines)

\* The score of a candidate against the per-slot target daily / 3, times 3:
\* the targets are carried as daily values so that the even split is exact.
Score(it, daily) ==
    CalorieWeight * Abs(SlotsPerDay * it.calories - daily.calories)
    + ProteinWeight * Abs(SlotsPerDay * it.protein - daily.protein)

\* Mutant: a candidate is inserted before the ranked candidates of equal score.
RECURSIVE InsertUnstable(_, _, _)
InsertUnstable(ranked, it, daily) ==
    IF ranked = <<>> THEN <<it>>
    ELSE IF Score(Head(ranked), daily) < Score(it, daily)
         THEN <<Head(ranked)>> \o InsertUnstable(Tail(ranked), it, daily)
         ELSE <<it>> \o ranked

\* Insert a candidate behind every ranked candidate that scores no worse.
RECURSIVE InsertByScore(_, _, _)
InsertByScore(ranked, it, daily) ==
    IF ranked = <<>> THEN <<it>>
    ELSE IF Score(Head(ranked), daily) <= Score(it, daily)
         THEN <<Head(ranked)>> \o InsertByScore(Tail(ranked), it, daily)
         ELSE <<it>> \o ranked

\* Rank candidates by score, lower first, ties in the order of the pool.
RECURSIVE Rank(_, _)
Rank(cands, daily) ==
    IF cands = <<>> THEN <<>>
    ELSE InsertByScore(Rank(SubSeq(cands, 1, Len(cands) - 1), daily),
                       cands[Len(cands)], daily)

\* select(pool, target, filters): filter, then rank.
SelectMeals(pool, daily, restrictions, cuisines) ==
    Rank(SelectSeq(pool, LAMBDA it : PassesFilters(it, restrictions, cuisines)),
         daily)

-----------------------------------------------------------------------------
(* Meal Plan Generator *)

\* The first meal type, in slot order, whose filtered pool is empty.
FirstUnsatisfied(daily, restrictions, cuisines) ==
    LET bad == {i \in 1..Len(MealTypes) :
                  SelectMeals(MealPool(MealTypes[i]), daily, restrictions, cuisines) = <<>>}
    IN  IF bad = {} THEN 0 ELSE CHOOSE i \in bad : \A j \in bad : i <= j

\* generate(daily_calories, daily_protein, dietary_restrictions,
\* cuisine_preferences): the top-ranked candidate of every slot, or a failure
\* naming the slot that has no candidate.
GenerateMealPlan(calories, protein, restrictions, cuisines) ==
    LET daily == [calories |-> calories, protein |-> protein]
        bad == FirstUnsatisfied(daily, restrictions, cuisines)
    IN  IF bad # 0
        THEN [kind |-> "ConstraintUnsatisfiable", slot |-> MealTypes[bad]]
        ELSE [kind |-> "plan",
              plan |-> [d \in DaySet |-> [mt \in MealTypeSet |->
                          Head(SelectMeals(MealPool(mt), daily, restrictions, cuisines))]]]

-----------------------------------------------------------------------------
(* Alternative Finder *)

\* The fixed bound on the length of an alternatives list.
K == 2

Take(s, n) == SubSeq(s, 1, IF Len(s) < n THEN Len(s) ELSE n)

\* Mutant: the current item is not excluded from the pool.
GetAlternativeMealsKeepCurrent(meal_type, calories, protein, restrictions, cuisines, current_meal_name) ==
    Take(SelectMeals(MealPool(meal_type),
                     [calories |-> calories, protein |-> protein],
                     restrictions, cuisines),
         K)

\* alternatives(meal_type, target_calories, target_protein, dietary_restrictions,
\* cuisine_preferences, current_meal_name).  The targets are the per-slot
\* targets calories / 3 and protein / 3, carried as the daily values.
GetAlternativeMeals(meal_type, calories, protein, restrictions, cuisines, current_meal_name) ==
    Take(SelectMeals(SelectSeq(MealPool(meal_type),
                               LAMBDA it : it.name # current_meal_name),
                     [calories |-> calories, protein |-> protein],
                     restrictions, cuisines),
         K)

-----------------------------------------------------------------------------
(* Exercise library and its categorical filter *)

ExerciseEntry(n, mg, sg, lvl, eq) ==
    [name |-> n, muscle_group |-> mg, subgroup |-> sg,
     required_fitness_level |-> lvl, equipment_tier |-> eq]

\* exercise_library[muscle_group][subgroup][fitness_level][equipment], each
\* list flattened to entries in library order.  Lower Chest has no Advanced
\* key and Quadriceps no Intermediate key.
ExerciseLibrary ==
    << ExerciseEntry("Incline Push-ups", "Chest", "Upper Chest", "Beginner", "None/Bodyweight"),
       ExerciseEntry("Incline Dumbbell Press", "Chest", "Upper Chest", "Beginner", "Dumbbells"),
       ExerciseEntry("Incline Barbell Press", "Chest", "Upper Chest", "Intermediate", "Full Gym Access"),
       ExerciseEntry("Weighted Incline Push-ups", "Chest", "Upper Chest", "Advanced", "None/Bodyweight"),
       ExerciseEntry("Decline Push-ups", "Chest", "Lower Chest", "Beginner", "None/Bodyweight"),
       ExerciseEntry("Dips", "Chest", "Lower Chest", "Intermediate", "None/Bodyweight"),
       ExerciseEntry("Decline Dumbbell Press", "Chest", "Lower Chest", "Intermediate", "Dumbbells"),
       ExerciseEntry("Bodyweight Squats", "Legs", "Quadriceps", "Beginner", "None/Bodyweight"),
       ExerciseEntry("Wall Sit", "Legs", "Quadriceps", "Beginner", "None/Bodyweight"),
       ExerciseEntry("Goblet Squats", "Legs", "Quadriceps", "Beginner", "Dumbbells"),
       ExerciseEntry("Barbell Back Squat", "Legs", "Quadriceps", "Advanced", "Full Gym Access") >>

\* The (muscle_group, subgroup) pairs of the library.
Subgroups ==
    {<<ExerciseLibrary[i].muscle_group, ExerciseLibrary[i].subgroup>> :
        i \in 1..Len(ExerciseLibrary)}

\* exercise_library[muscle_group][subgroup]
SubgroupPool(muscle_group, subgroup) ==
    SelectSeq(ExerciseLibrary,
              LAMBDA e : e.muscle_group = muscle_group /\ e.subgroup = subgroup)

\* Mutant: the fitness level is not looked up; every level's lists are shown.
RECURSIVE ExercisesShownAnyLevel(_, _, _)
ExercisesShownAnyLevel(exercises_dict, fitness_level, equipment) ==
    IF equipment = <<>> THEN <<>>
    ELSE SelectSeq(exercises_dict,
                   LAMBDA e : e.equipment_tier = Head(equipment))
         \o ExercisesShownAnyLevel(exercises_dict, fitness_level, Tail(equipment))

\* The exercises of one subgroup listed for a fitness level and the selected
\* equipment: for each selected equipment, in selection order, the list
\* exercises_dict[fitness_level][equip] when both keys exist.
RECURSIVE ExercisesShown(_, _, _)
ExercisesShown(exercises_dict, fitness_level, equipment) ==
    IF equipment = <<>> THEN <<>>
    ELSE SelectSeq(exercises_dict,
                   LAMBDA e : /\ e.required_fitness_level = fitness_level
                              /\ e.equipment_tier = Head(equipment))
         \o ExercisesShown(exercises_dict, fitness_level, Tail(equipment))

-----------------------------------------------------------------------------
(* Workout Plan Generator *)

\* Fixed time cost of one exercise, in minutes, and the tolerance allowed on
\* a day's time budget.
ExerciseCost == 10
TimeTolerance == 0

Contains(s, x) == \E i \in 1..Len(s) : s[i] = x

RECURSIVE Dedup(_)
Dedup(s) ==
    IF s = <<>> THEN <<>>
    ELSE <<Head(s)>> \o SelectSeq(Dedup(Tail(s)), LAMBDA x : x # Head(s))

\* The subgroups of a muscle group, in library order.
SubgroupsOf(muscle_group) ==
    LET pool == SelectSeq(ExerciseLibrary,
                          LAMBDA e : e.muscle_group = muscle_group)
    IN Dedup([i \in 1..Len(pool) |-> pool[i].subgroup])

\* The (muscle_group, subgroup) pairs a day draws from: the subgroups of
\* each of its selected muscle groups, in selection order.
RECURSIVE Targets(_)
Targets(groups) ==
    IF groups = <<>> THEN <<>>
    ELSE [i \in 1..Len(SubgroupsOf(Head(groups))) |->
             <<Head(groups), SubgroupsOf(Head(groups))[i]>>]
         \o Targets(Tail(groups))

\* The pool of a subgroup filtered by fitness level and equipment.
Filtered(target, fitness_level, equipment_available) ==
    ExercisesShown(SubgroupPool(target[1], target[2]),
                   fitness_level, equipment_available)

\* The number of the given days that selected the muscle group.
DaysNeeding(days, muscle_group, muscle_groups) ==
    Cardinality({i \in 1..Len(days) :
                    Contains(muscle_groups[days[i]], muscle_group)})

\* Mutant: any number of exercises fits the day.
RoomUnlimited(total, time_per_session) == Len(ExerciseLibrary)

\* How many more exercises fit the day's remaining session time.
Room(total, time_per_session) ==
    IF time_per_session > total
    THEN (time_per_session - total) \div ExerciseCost
    ELSE 0

\* Mutant: a day takes every unused exercise of the subgroup.
ShareAll(fresh, later) == fresh

\* How many of the unused exercises of a subgroup a day may take: those the
\* later days needing the group do not need, and at least one.
Share(fresh, later) == IF fresh - later >= 1 THEN fresh - later ELSE 1

\* One day: for each target in turn, accumulate its filtered exercises not
\* used earlier in the week while they fit the session time; when none is
\* unused, one exercise of the filtered pool is repeated and the group is
\* reported as recycled.
RECURSIVE DrawDay(_, _, _, _, _, _, _)
DrawDay(targets, fitness_level, equipment_available, time_per_session, later, used, acc) ==
    IF targets = <<>> THEN acc
    ELSE LET target   == Head(targets)
             filtered == Filtered(target, fitness_level, equipment_available)
             fresh    == SelectSeq(filtered, LAMBDA e : e.name \notin used)
             room     == Room(Len(acc.exercises) * ExerciseCost, time_per_session)
             share    == Share(Len(fresh), later[target[1]])
             take     == IF fresh # <<>>
                         THEN Take(fresh, IF share < room THEN share ELSE room)
                         ELSE Take(filtered, IF 1 < room THEN 1 ELSE room)
         IN DrawDay(Tail(targets), fitness_level, equipment_available,
                    time_per_session, later, used,
                    [exercises |-> acc.exercises \o take,
                     recycled  |-> IF fresh = <<>> /\ take # <<>>
                                   THEN acc.recycled \cup {target[1]}
                                   ELSE acc.recycled])

\* The week, day by day in the order of available_days.  A day left without
\* an exercise fails the whole generation, naming the day.
RECURSIVE DrawWeek(_, _, _, _, _, _, _)
DrawWeek(days, fitness_level, equipment_available, time_per_session, muscle_groups, used, acc) ==
    IF days = <<>>
    THEN [kind |-> "schedule", schedule |-> acc.schedule,
          recycled |-> acc.recycled]
    ELSE LET day   == Head(days)
             later == [g \in {muscle_groups[day][i] :
                                 i \in 1..Len(muscle_groups[day])} |->
                          DaysNeeding(Tail(days), g, muscle_groups)]
             drawn == DrawDay(Targets(muscle_groups[day]), fitness_level,
                              equipment_available, time_per_session,
                              later, used,
                              [exercises |-> <<>>, recycled |-> {}])
         IN IF drawn.exercises = <<>>
            THEN [kind |-> "ConstraintUnsatisfiable", day |-> day]
            ELSE DrawWeek(Tail(days), fitness_level, equipment_available,
                          time_per_session, muscle_groups,
                          used \cup {drawn.exercises[i].name :
                                        i \in 1..Len(drawn.exercises)},
                          [schedule |-> acc.schedule @@
                               (day :> [focus     |-> muscle_groups[day],
                                        duration  |-> Len(drawn.exercises) * ExerciseCost,
                                        exercises |-> drawn.exercises]),
                           recycled |-> acc.recycled \cup drawn.recycled])

\* generate_workout_plan(fitness_level, goals, available_days,
\* equipment_available, time_per_session, muscle_groups, exercise_library):
\* a schedule with the groups it recycled, or a failure naming its kind.
\* The goals do not enter the selection.
GenerateWorkoutPlan(fitness_level, available_days, equipment_available, time_per_session, muscle_groups) ==
    IF available_days = <<>> \/ DOMAIN muscle_groups = {}
    THEN [kind |-> "InvalidInput"]
    ELSE DrawWeek(available_days, fitness_level, equipment_available,
                  time_per_session, muscle_groups, {},
                  [schedule |-> <<>>, recycled |-> {}])

-----------------------------------------------------------------------------
(* Inputs of the forms *)

\* Submissions of the nutrition form: the dietary restrictions and cuisine
\* preferences selected, and the daily targets computed from the personal
\* information.
Form(dr, cp, c, p) ==
    [dietary_restrictions |-> dr, cuisine_preferences |-> cp,
     calories |-> c, protein |-> p]

FormChoices ==
    { Form({"None"}, {"Any"}, 2000, 150),
      Form({"None"}, {"Any"}, 1500, 90),
      Form({"Vegetarian"}, {"Any"}, 2000, 150),
      Form({"Vegan"}, {"Any"}, 1500, 90),
      Form({"Gluten-Free"}, {"Any"}, 2000, 150),
      Form({"None"}, {"Asian"}, 2000, 150) }

\* The days whose buttons are clicked.
ClickDays == {"Monday", "Thursday"}

\* Submissions of the workout form: the fitness level, the equipment in
\* selection order, the checked days in week order, the minutes per session
\* and, for every checked day, its muscle groups in selection order.
WorkoutForm(fl, eq, days, t, mg) ==
    [fitness_level |-> fl, equipment |-> eq, available_days |-> days,
     time_per_session |-> t, muscle_groups |-> mg]

WorkoutChoices ==
    { WorkoutForm("Beginner", <<"None/Bodyweight">>, <<"Monday", "Wednesday">>, 30,
                  ("Monday" :> <<"Chest">>) @@ ("Wednesday" :> <<"Legs">>)),
      WorkoutForm("Beginner", <<"None/Bodyweight">>, <<"Monday", "Wednesday">>, 30,
                  ("Monday" :> <<"Legs">>) @@ ("Wednesday" :> <<"Legs">>)),
      WorkoutForm("Beginner", <<"None/Bodyweight">>, <<"Monday", "Wednesday", "Friday">>, 15,
                  ("Monday" :> <<"Legs">>) @@ ("Wednesday" :> <<"Legs">>)
                      @@ ("Friday" :> <<"Legs">>)),
      WorkoutForm("Beginner", <<"None/Bodyweight", "Dumbbells">>, <<"Monday">>, 30,
                  ("Monday" :> <<"Chest", "Legs">>)),
      WorkoutForm("Beginner", <<"Dumbbells">>, <<"Monday", "Wednesday">>, 30,
                  ("Monday" :> <<"Legs">>) @@ ("Wednesday" :> <<"Legs">>)),
      WorkoutForm("Intermediate", <<"None/Bodyweight", "Dumbbells">>, <<"Tuesday">>, 45,
                  ("Tuesday" :> <<"Chest">>)),
      WorkoutForm("Advanced", <<"Dumbbells">>, <<"Monday">>, 45,
                  ("Monday" :> <<"Chest">>)),
      WorkoutForm("Beginner", <<"None/Bodyweight">>, <<"Monday", "Wednesday">>, 30,
                  ("Monday" :> <<"Chest">>) @@ ("Wednesday" :> <<>>)),
      WorkoutForm("Beginner", <<"None/Bodyweight">>, <<"Monday">>, 45,
                  ("Monday" :> <<>>)),
      WorkoutForm("Beginner", <<"None/Bodyweight">>, <<>>, 45, <<>>) }

-----------------------------------------------------------------------------
(* The session *)

Init ==
    /\ is_authenticated = FALSE
    /\ user_profile = None
    /\ nutritional_targets = None
    /\ current_meal_plan = None
    /\ shown = None
    /\ selects = 0
    /\ first_gen = None
    /\ m_in = None
    /\ m_out = None
    /\ user_id = None
    /\ username = None
    /\ current_schedule = None
    /\ w_last = None
    /\ saved_schedule = None
    /\ saved_meal_plan = None

\* History of generation requests: the inputs and the plan of the first
\* successful one, and whether a later one had the same inputs.
SameRequest(gen, dr, cp, c, p) ==
    /\ gen.dietary_restrictions = dr
    /\ gen.cuisine_preferences = cp
    /\ gen.calories = c
    /\ gen.protein = p

Recorded(gen, dr, cp, c, p, plan) ==
    IF gen = None
    THEN [dietary_restrictions |-> dr, cuisine_preferences |-> cp,
          calories |-> c, protein |-> p, plan |-> plan, repeated |-> FALSE]
    ELSE IF SameRequest(gen, dr, cp, c, p)
         THEN [gen EXCEPT !.repeated = TRUE]
         ELSE gen

\* The registered users and their ids.
Users == {"alice", "bob"}

UserId(name) == IF name = "alice" THEN 1 ELSE 2

\* The "Login" button.  login_user rejects the credentials ("invalid"), or
\* accepts them; then get_current_user finds the user ("found") or returns
\* None or raises ("lost"), which the handler's except clause reports.
LoginUser(name, lookup) ==
    /\ ~is_authenticated
    /\ IF lookup = "invalid"
       THEN UNCHANGED <<is_authenticated, username, user_id>>
       ELSE /\ username' = Some(name)
            /\ is_authenticated' = TRUE
            /\ user_id' = IF lookup = "found" THEN Some(UserId(name)) ELSE user_id
    /\ UNCHANGED <<user_profile, nutritional_targets, current_meal_plan,
                   shown, selects, first_gen, m_in, m_out,
                   current_schedule, w_last, saved_schedule, saved_meal_plan>>

\* The "Login" button, with valid credentials.
Login == LoginUser("alice", "found")

\* Mutant: Logout resets the authentication fields only.
LogoutKeepsPlans ==
    /\ is_authenticated
    /\ is_authenticated' = FALSE
    /\ user_id' = None
    /\ username' = None
    /\ UNCHANGED <<user_profile, nutritional_targets, current_meal_plan,
                   shown, selects, current_schedule, w_last,
                   first_gen, m_in, m_out, saved_schedule, saved_meal_plan>>

\* The "Logout" button: st.session_state.clear(), then the rerun initialises
\* the session state again.
Logout ==
    /\ is_authenticated
    /\ is_authenticated' = FALSE
    /\ user_profile' = None
    /\ nutritional_targets' = None
    /\ current_meal_plan' = None
    /\ shown' = None
    /\ selects' = 0
    /\ user_id' = None
    /\ username' = None
    /\ current_schedule' = None
    /\ w_last' = None
    /\ UNCHANGED <<first_gen, m_in, m_out, saved_schedule, saved_meal_plan>>

\* Mutant: when generation fails, a plan generated without filters is stored.
CalculateMyNeedsFallback(dietary_restrictions, cuisine_preferences, target_calories, protein_needs) ==
    /\ is_authenticated
    /\ user_profile' = [dietary_restrictions |-> dietary_restrictions,
                        cuisine_preferences |-> cuisine_preferences]
    /\ nutritional_targets' = [calories |-> target_calories, protein |-> protein_needs]
    /\ IF current_meal_plan = None
       THEN LET meal_plan == GenerateMealPlan(target_calories, protein_needs,
                                              dietary_restrictions, cuisine_preferences)
                fallback == GenerateMealPlan(target_calories, protein_needs,
                                             {"None"}, {"Any"})
            IN  IF meal_plan.kind = "plan"
                THEN /\ current_meal_plan' = meal_plan.plan
                     /\ first_gen' = Recorded(first_gen, dietary_restrictions,
                                              cuisine_preferences, target_calories,
                                              protein_needs, meal_plan.plan)
                ELSE /\ current_meal_plan' = fallback.plan
                     /\ UNCHANGED first_gen
       ELSE UNCHANGED <<current_meal_plan, first_gen>>
    /\ shown' = None
    /\ UNCHANGED <<is_authenticated, selects, m_in, m_out, beyond_meals>>

\* Mutant: the plan is generated from the filters the session held before this
\* click, when it held any.
CalculateMyNeedsStale(dietary_restrictions, cuisine_preferences, target_calories, protein_needs) ==
    /\ is_authenticated
    /\ user_profile' = [dietary_restrictions |-> dietary_restrictions,
                        cuisine_preferences |-> cuisine_preferences]
    /\ nutritional_targets' = [calories |-> target_calories, protein |-> protein_needs]
    /\ IF current_meal_plan = None
       THEN LET used == IF user_profile = None THEN user_profile' ELSE user_profile
                meal_plan == GenerateMealPlan(target_calories, protein_needs,
                                              used.dietary_restrictions,
                                              used.cuisine_preferences)
            IN  IF meal_plan.kind = "plan"
                THEN /\ current_meal_plan' = meal_plan.plan
                     /\ first_gen' = Recorded(first_gen, dietary_restrictions,
                                              cuisine_preferences, target_calories,
                                              protein_needs, meal_plan.plan)
                ELSE UNCHANGED <<current_meal_plan, first_gen>>
       ELSE UNCHANGED <<current_meal_plan, first_gen>>
    /\ shown' = None
    /\ UNCHANGED <<is_authenticated, selects, m_in, m_out, beyond_meals>>

\* The "Calculate My Needs" button: store profile and targets, generate a meal
\* plan when the session holds none, display the plan.
CalculateMyNeeds(dietary_restrictions, cuisine_preferences, target_calories, protein_needs) ==
    /\ is_authenticated
    /\ user_profile' = [dietary_restrictions |-> dietary_restrictions,
                        cuisine_preferences |-> cuisine_preferences]
    /\ nutritional_targets' = [calories |-> target_calories, protein |-> protein_needs]
    /\ IF current_meal_plan = None
       THEN LET meal_plan == GenerateMealPlan(target_calories, protein_needs,
                                              dietary_restrictions, cuisine_preferences)
            IN  IF meal_plan.kind = "plan"
                THEN /\ current_meal_plan' = meal_plan.plan
                     /\ first_gen' = Recorded(first_gen, dietary_restrictions,
                                              cuisine_preferences, target_calories,
                                              protein_needs, meal_plan.plan)
                ELSE UNCHANGED <<current_meal_plan, first_gen>>
       ELSE UNCHANGED <<current_meal_plan, first_gen>>
    /\ shown' = None
    /\ UNCHANGED <<is_authenticated, selects, m_in, m_out, beyond_meals>>

\* Mutant: an empty alternatives list clears the plan.
ShowAlternativesClearing(day, meal_type) ==
    /\ is_authenticated
    /\ current_meal_plan # None
    /\ LET meal == current_meal_plan[day][meal_type]
           alternatives == GetAlternativeMeals(
                               meal_type,
                               nutritional_targets.calories,
                               nutritional_targets.protein,
                               user_profile.dietary_restrictions,
                               user_profile.cuisine_preferences,
                               meal.name)
       IN  /\ shown' = [meal_type |-> meal_type,
                        current_meal_name |-> meal.name,
                        alternatives |-> alternatives]
           /\ current_meal_plan' =
                  IF alternatives = <<>> THEN None ELSE current_meal_plan
    /\ UNCHANGED <<is_authenticated, user_profile, nutritional_targets,
                   selects, first_gen, m_in, m_out, beyond_meals>>

\* display_meal_plan, "Show alternatives for <meal_type>" clicked on one slot
\* and no "Select" button clicked: the alternatives are listed.
ShowAlternatives(day, meal_type) ==
    /\ is_authenticated
    /\ current_meal_plan # None
    /\ LET meal == current_meal_plan[day][meal_type]
           alternatives == GetAlternativeMeals(
                               meal_type,
                               nutritional_targets.calories,
                               nutritional_targets.protein,
                               user_profile.dietary_restrictions,
                               user_profile.cuisine_preferences,
                               meal.name)
       IN  shown' = [meal_type |-> meal_type,
                     current_meal_name |-> meal.name,
                     alternatives |-> alternatives]
    /\ UNCHANGED <<is_authenticated, user_profile, nutritional_targets,
                   current_meal_plan, selects, first_gen, m_in, m_out, beyond_meals>>

\* Mutant: the days share one meals mapping, so the slot changes on every day.
SelectAlternativeAllDays(day, meal_type, i) ==
    /\ is_authenticated
    /\ current_meal_plan # None
    /\ selects < MaxSelects
    /\ LET meal == current_meal_plan[day][meal_type]
           alternatives == GetAlternativeMeals(
                               meal_type,
                               nutritional_targets.calories,
                               nutritional_targets.protein,
                               user_profile.dietary_restrictions,
                               user_profile.cuisine_preferences,
                               meal.name)
       IN  /\ i \in 1..Len(alternatives)
           /\ current_meal_plan' =
                  [d \in DOMAIN current_meal_plan |->
                     [current_meal_plan[d] EXCEPT ![meal_type] = alternatives[i]]]
    /\ selects' = selects + 1
    /\ shown' = None
    /\ UNCHANGED <<is_authenticated, user_profile, nutritional_targets,
                   first_gen, m_in, m_out, beyond_meals>>

\* Mutant: the day's meals are replaced by a mapping holding the one slot.
SelectAlternativeWholeDay(day, meal_type, i) ==
    /\ is_authenticated
    /\ current_meal_plan # None
    /\ selects < MaxSelects
    /\ LET meal == current_meal_plan[day][meal_type]
           alternatives == GetAlternativeMeals(
                               meal_type,
                               nutritional_targets.calories,
                               nutritional_targets.protein,
                               user_profile.dietary_restrictions,
                               user_profile.cuisine_preferences,
                               meal.name)
       IN  /\ i \in 1..Len(alternatives)
           /\ current_meal_plan' =
                  [current_meal_plan EXCEPT
                     ![day] = [mt \in {meal_type} |-> alternatives[i]]]
    /\ selects' = selects + 1
    /\ shown' = None
    /\ UNCHANGED <<is_authenticated, user_profile, nutritional_targets,
                   first_gen, m_in, m_out, beyond_meals>>

\* display_meal_plan, "Show alternatives" and the "Select <alt>" button of the
\* i-th alternative: the slot takes the alternative, then st.rerun().
SelectAlternative(day, meal_type, i) ==
    /\ is_authenticated
    /\ current_meal_plan # None
    /\ selects < MaxSelects
    /\ LET meal == current_meal_plan[day][meal_type]
           alternatives == GetAlternativeMeals(
                               meal_type,
                               nutritional_targets.calories,
                               nutritional_targets.protein,
                               user_profile.dietary_restrictions,
                               user_profile.cuisine_preferences,
                               meal.name)
       IN  /\ i \in 1..Len(alternatives)
           /\ current_meal_plan' =
                  [current_meal_plan EXCEPT ![day][meal_type] = alternatives[i]]
    /\ selects' = selects + 1
    /\ shown' = None
    /\ UNCHANGED <<is_authenticated, user_profile, nutritional_targets,
                   first_gen, m_in, m_out, beyond_meals>>

\* Mutant: the handler of main passes every submission on.
RejectedNever(form) == FALSE

\* The "Generate Workout Plan" handler of main refuses a submission with no
\* day checked, or with no muscle group selected on any day.
Rejected(form) ==
    \/ form.available_days = <<>>
    \/ \A day \in DOMAIN form.muscle_groups : form.muscle_groups[day] = <<>>

\* Mutant: the engine is called with every equipment tier.
WorkoutPlanCallAllEquipment(form) ==
    GenerateWorkoutPlan(form.fitness_level, form.available_days,
                        <<"None/Bodyweight", "Dumbbells", "Full Gym Access">>,
                        form.time_per_session, form.muscle_groups)

\* The call of generate_workout_plan with the submitted values.
WorkoutPlanCall(form) ==
    GenerateWorkoutPlan(form.fitness_level, form.available_days,
                        form.equipment, form.time_per_session,
                        form.muscle_groups)

\* Mutant: no result of the engine is taken for a failure.
FailedNever(schedule) == FALSE

\* "if not schedule": the engine's result is no schedule.
Failed(schedule) == schedule.kind # "schedule"

\* Mutant: the schedule of the session is kept during generation.
ClearedKeeps(schedule) == schedule

\* The session's schedule once generation has begun.
Cleared(schedule) == None

\* What one run of the handler did: whether the session's schedule was
\* cleared, whether generate_workout_plan was invoked and its result, whether
\* the schedule was saved, the schedule the session holds afterwards, the
\* value generate_new_workout returned and the message shown.
Ran(cleared, invoked, result, saved, current, returned, message) ==
    [cleared |-> cleared, invoked |-> invoked, result |-> result,
     saved |-> saved, current |-> current, returned |-> returned,
     message |-> message]

\* generate_new_workout.  save is the outcome of save_workout_schedule, rerun
\* that of st.experimental_rerun(): the script is rerun, or the call raises
\* and the handler's except clause reports an error.  Either way the
\* function does not return the schedule.
GenerateNewWorkout(form, schedule, save, rerun) ==
    IF form.available_days = <<>>
    THEN Ran(FALSE, FALSE, None, FALSE, schedule, None, "select a day")
    ELSE IF DOMAIN form.muscle_groups = {}
    THEN Ran(FALSE, FALSE, None, FALSE, schedule, None, "select muscle groups")
    ELSE LET result == WorkoutPlanCall(form)
         IN IF Failed(result)
            THEN Ran(TRUE, TRUE, result, FALSE, Cleared(schedule), None,
                     "could not generate")
            ELSE IF save = "saved"
            THEN Ran(TRUE, TRUE, result, TRUE, result, None,
                     IF rerun = "reruns" THEN "generated" ELSE "error")
            ELSE Ran(TRUE, TRUE, result, FALSE, Cleared(schedule), None,
                     "failed to save")

\* The "Generate Workout Plan" button.  generate_new_workout never returns a
\* schedule, so the handler's own save of the returned schedule is not run.
GenerateWorkoutPlanClick(form, save, rerun) ==
    /\ is_authenticated
    /\ LET ran == IF Rejected(form)
                  THEN Ran(FALSE, FALSE, None, FALSE, current_schedule, None,
                           IF form.available_days = <<>>
                           THEN "select a workout day"
                           ELSE "select a muscle group")
                  ELSE GenerateNewWorkout(form, current_schedule, save, rerun)
       IN /\ current_schedule' = ran.current
          /\ saved_schedule' = IF ran.saved
                               THEN [user_id |-> user_id, schedule |-> ran.result]
                               ELSE saved_schedule
          /\ w_last' = [request |-> form, cleared |-> ran.cleared,
                        invoked |-> ran.invoked, result |-> ran.result,
                        saved |-> ran.saved, returned |-> ran.returned,
                        message |-> ran.message]
    /\ UNCHANGED <<is_authenticated, user_profile, nutritional_targets,
                   current_meal_plan, shown, selects, first_gen, m_in, m_out,
                   user_id, username, saved_meal_plan>>

\* The "Save Current Meal Plan" button, shown while the session holds a
\* plan.  get_current_user finds the user ("found") or not ("lost"), and
\* save_meal_plan stores the plan with the session's targets or fails.
SaveMealPlan(lookup, save) ==
    /\ is_authenticated
    /\ current_meal_plan # None
    /\ saved_meal_plan' =
          IF lookup = "found" /\ save = "saved"
          THEN [user_id   |-> UserId(username.value),
                meal_plan |-> current_meal_plan,
                calories  |-> nutritional_targets.calories,
                protein   |-> nutritional_targets.protein]
          ELSE saved_meal_plan
    /\ UNCHANGED <<is_authenticated, user_profile, nutritional_targets,
                   current_meal_plan, shown, selects, first_gen, m_in, m_out,
                   user_id, username, current_schedule, w_last, saved_schedule>>

Next ==
    \/ Login
    \/ Logout
    \/ \E f \in FormChoices :
          CalculateMyNeeds(f.dietary_restrictions, f.cuisine_preferences,
                           f.calories, f.protein)
    \/ \E day \in ClickDays, mt \in MealTypeSet : ShowAlternatives(day, mt)
    \/ \E day \in ClickDays, mt \in MealTypeSet, i \in 1..K :
          SelectAlternative(day, mt, i)

Spec == Init /\ [][Next]_vars

-----------------------------------------------------------------------------
(* The Constraint Matcher and the exercise filter on their own *)

\* Filters and targets of the matcher requests.
MatchDietary ==
    {{"None"}, {"Vegetarian"}, {"Vegan"}, {"Gluten-Free"}, {"Vegetarian", "Vegan"}}

MatchCuisine == {{"Any"}, {"Asian"}, {"Asian", "Mediterranean"}, {"Thai"}}

MatchTargets == {[calories |-> 2000, protein |-> 150],
                 [calories |-> 1500, protein |-> 90],
                 [calories |-> 1350, protein |-> 75]}

\* Choices of the "Select Fitness Level" selectbox.
FitnessLevels == {"Beginner", "Intermediate", "Advanced"}

\* Selections of the "Available Equipment" multiselect, in selection order.
EquipmentChoices ==
    { <<>>,
      <<"None/Bodyweight">>,
      <<"Dumbbells">>,
      <<"Full Gym Access">>,
      <<"None/Bodyweight", "Dumbbells">>,
      <<"Dumbbells", "None/Bodyweight">>,
      <<"None/Bodyweight", "Dumbbells", "Full Gym Access">> }

\* One call select(pool, target, filters) on a slice of a meal_type pool.
\* Each behaviour makes one request: a call is a self-contained computation.
MatchMeals(meal_type, keep, daily, restrictions, cuisines) ==
    LET pool == SelectSeq(MealPool(meal_type), LAMBDA it : it \in keep)
    IN  /\ m_in = None
        /\ m_in' = [kind |-> "meals", pool |-> pool, daily |-> daily,
                    dietary_restrictions |-> restrictions,
                    cuisine_preferences |-> cuisines]
        /\ m_out' = SelectMeals(pool, daily, restrictions, cuisines)
        /\ UNCHANGED session

\* display_exercise_library: for every muscle group and subgroup, the
\* exercises listed for the fitness level and the equipment selected.
DisplayExerciseLibrary(fitness_level, equipment) ==
    /\ is_authenticated
    /\ m_in = None
    /\ m_in' = [kind |-> "exercises", fitness_level |-> fitness_level,
                equipment |-> equipment]
    /\ m_out' = [sg \in Subgroups |->
                    ExercisesShown(SubgroupPool(sg[1], sg[2]), fitness_level, equipment)]
    /\ UNCHANGED session

NextMatcher ==
    \/ Login
    \/ \E mt \in MealTypeSet, daily \in MatchTargets,
          dr \in MatchDietary, cp \in MatchCuisine :
          \E keep \in SUBSET {it \in MealItems : it.meal_type = mt} :
             MatchMeals(mt, keep, daily, dr, cp)
    \/ \E lvl \in FitnessLevels, eq \in EquipmentChoices :
          DisplayExerciseLibrary(lvl, eq)

SpecMatcher == Init /\ [][NextMatcher]_vars

-----------------------------------------------------------------------------
(* The workout tab: requests for a workout schedule *)

SaveOutcomes == {"saved", "failed"}
RerunOutcomes == {"reruns", "raises"}

NextWorkout ==
    \/ \E name \in Users : LoginUser(name, "found")
    \/ Logout
    \/ \E form \in WorkoutChoices, save \in SaveOutcomes, rerun \in RerunOutcomes :
          GenerateWorkoutPlanClick(form, save, rerun)

SpecWorkout == Init /\ [][NextWorkout]_vars

-----------------------------------------------------------------------------
(* Accounts: users logging in and out of one session, and the storage *)

LookupOutcomes == {"found", "lost", "invalid"}

\* The submissions of the nutrition and workout forms made here, and the
\* slots whose alternatives are selected.
AccountForms ==
    {f \in FormChoices : /\ f.dietary_restrictions = {"None"}
                         /\ f.cuisine_preferences = {"Any"}
                         /\ f.calories = 2000}

AccountWorkouts ==
    {f \in WorkoutChoices : /\ f.available_days = <<"Monday">>
                            /\ f.fitness_level = "Beginner"
                            /\ f.time_per_session = 30}

AccountSlots == {<<"Monday", "Dinner">>}

NextAccount ==
    \/ \E name \in Users, lookup \in LookupOutcomes : LoginUser(name, lookup)
    \/ Logout
    \/ \E f \in AccountForms :
          CalculateMyNeeds(f.dietary_restrictions, f.cuisine_preferences,
                           f.calories, f.protein)
    \/ \E slot \in AccountSlots, i \in 1..K :
          SelectAlternative(slot[1], slot[2], i)
    \/ \E lookup \in LookupOutcomes \ {"invalid"}, save \in SaveOutcomes :
          SaveMealPlan(lookup, save)
    \/ \E form \in AccountWorkouts, save \in SaveOutcomes :
          GenerateWorkoutPlanClick(form, save, "reruns")

SpecAccount == Init /\ [][NextAccount]_vars


-----------------------------------------------------------------------------
(* Properties *)

\* An item meets a set of dietary restrictions: it carries the tag of every
\* restriction other than "None".
MeetsRestrictions(it, restrictions) ==
    \A r \in restrictions : r = "None" \/ r \in it.dietary_tags

MeetsCuisines(it, cuisines) ==
    "Any" \in cuisines \/ \E c \in cuisines : c \in it.cuisine_tags

\* The library items a slot of meal_type may take under the session's filters.
Candidates(meal_type, profile) ==
    {it \in MealItems :
        /\ it.meal_type = meal_type
        /\ MeetsRestrictions(it, profile.dietary_restrictions)
        /\ MeetsCuisines(it, profile.cuisine_preferences)}

Slots == DaySet \X MealTypeSet

Range(seq) == {seq[i] : i \in 1..Len(seq)}

\* C1: in every reachable session state every item of the current meal plan
\* satisfies the dietary restrictions currently stored in the user profile.
\* Violated: a second "Calculate My Needs" click stores the new restrictions
\* and keeps the plan generated under the old ones.
C1_PlanMeetsProfileRestrictions ==
    current_meal_plan # None =>
        \A sl \in Slots :
            MeetsRestrictions(current_meal_plan[sl[1]][sl[2]],
                              user_profile.dietary_restrictions)

\* C2: selecting an alternative for one (day, meal_type) slot changes exactly
\* that entry of the plan and leaves its days and meal slots as they were;
\* listing the alternatives without selecting one leaves the plan unchanged.
C2_SelectChangesOneSlot ==
    [][ /\ selects' = selects + 1 =>
             /\ DOMAIN current_meal_plan' = DOMAIN current_meal_plan
             /\ \A d \in DOMAIN current_meal_plan :
                    DOMAIN current_meal_plan'[d] = DOMAIN current_meal_plan[d]
             /\ Cardinality({sl \in Slots :
                                current_meal_plan'[sl[1]][sl[2]]
                                    # current_meal_plan[sl[1]][sl[2]]}) = 1
        /\ shown' # None => current_meal_plan' = current_meal_plan ]_vars

\* C2 witness: an alternative was selected, then alternatives were listed.
C2_Witness ==
    /\ selects = 1
    /\ shown # None
    /\ shown.alternatives # <<>>

\* C3: when some meal slot has no candidate under the submitted filters, the
\* generation fails as a whole and the session's meal plan stays unset: no
\* partial plan and no plan holding a substituted item is stored.
C3_FailedGenerationLeavesPlanUnset ==
    [][ ( /\ current_meal_plan = None
          /\ user_profile' # None
          /\ \E mt \in MealTypeSet : Candidates(mt, user_profile') = {} )
        => current_meal_plan' = None ]_vars

\* C3 witness: "Calculate My Needs" ran with {Vegan}, Dinner has no Vegan item.
C3_Witness ==
    /\ is_authenticated
    /\ current_meal_plan = None
    /\ user_profile # None
    /\ user_profile.dietary_restrictions = {"Vegan"}
    /\ Candidates("Dinner", user_profile) = {}
    /\ Candidates("Lunch", user_profile) # {}

\* C4: a meal plan held by the session has exactly the 7 days, each with
\* exactly the slots Breakfast, Lunch and Dinner, and each of the 21 slots
\* holds one library item of the slot's meal type, also after alternative
\* replacements.
C4_PlanShape ==
    current_meal_plan # None =>
        /\ DOMAIN current_meal_plan = DaySet
        /\ Cardinality(DaySet) = 7
        /\ \A d \in DaySet :
              /\ DOMAIN current_meal_plan[d] = {"Breakfast", "Lunch", "Dinner"}
              /\ \A mt \in DOMAIN current_meal_plan[d] :
                    /\ current_meal_plan[d][mt] \in MealItems
                    /\ current_meal_plan[d][mt].meal_type = mt

\* C4 witness: a plan after two alternative replacements.
C4_Witness ==
    /\ current_meal_plan # None
    /\ selects > 1

\* C5: every candidate the Constraint Matcher returns comes from the pool and
\* passes every categorical filter: a meal carries every restricted dietary
\* tag and a preferred cuisine, an exercise has the requested fitness level
\* and an equipment tier among those selected.
C5_MatcherKeepsFilters ==
    /\ (m_in # None /\ m_in.kind = "meals") =>
          \A i \in 1..Len(m_out) :
             /\ m_out[i] \in Range(m_in.pool)
             /\ MeetsRestrictions(m_out[i], m_in.dietary_restrictions)
             /\ MeetsCuisines(m_out[i], m_in.cuisine_preferences)
    /\ (m_in # None /\ m_in.kind = "exercises") =>
          \A sg \in DOMAIN m_out : \A i \in 1..Len(m_out[sg]) :
             /\ m_out[sg][i].required_fitness_level = m_in.fitness_level
             /\ m_out[sg][i].equipment_tier \in Range(m_in.equipment)
             /\ <<m_out[sg][i].muscle_group, m_out[sg][i].subgroup>> = sg

\* C5 witness: a {Vegan} request that kept some of the pool and removed some.
C5_Witness ==
    /\ m_in # None
    /\ m_in.kind = "meals"
    /\ m_in.dietary_restrictions = {"Vegan"}
    /\ Len(m_out) > 0
    /\ Len(m_out) < Len(m_in.pool)

\* C6: the alternatives returned for a slot hold no item named as the current
\* item and are at most K.
C6_AlternativesExcludeCurrent ==
    shown # None =>
        /\ Len(shown.alternatives) <= K
        /\ \A i \in 1..Len(shown.alternatives) :
              shown.alternatives[i].name # shown.current_meal_name

\* C6 witness: more than K other candidates existed and K were returned.
C6_Witness ==
    /\ shown # None
    /\ Len(shown.alternatives) = K
    /\ Cardinality({it \in Candidates(shown.meal_type, user_profile) :
                        it.name # shown.current_meal_name}) > K

Distance(it, daily) ==
    Abs(3 * it.calories - daily.calories) + Abs(3 * it.protein - daily.protein)

PoolIndex(it, pool) == CHOOSE k \in 1..Len(pool) : pool[k] = it

\* C8: the matcher's result is ordered by non-decreasing score, and two
\* candidates of equal score are in their library order.
C8_RankedByScoreStable ==
    (m_in # None /\ m_in.kind = "meals") =>
        \A i, j \in 1..Len(m_out) :
            i < j =>
               /\ Distance(m_out[i], m_in.daily) <= Distance(m_out[j], m_in.daily)
               /\ Distance(m_out[i], m_in.daily) = Distance(m_out[j], m_in.daily)
                     => PoolIndex(m_out[i], m_in.pool) < PoolIndex(m_out[j], m_in.pool)

\* C8 witness: a result holding a tie and a strict step.
C8_Witness ==
    /\ m_in # None
    /\ m_in.kind = "meals"
    /\ Len(m_out) > 2
    /\ \E i \in 1..(Len(m_out) - 1) :
          Distance(m_out[i], m_in.daily) = Distance(m_out[i + 1], m_in.daily)
    /\ \E i \in 1..(Len(m_out) - 1) :
          Distance(m_out[i], m_in.daily) < Distance(m_out[i + 1], m_in.daily)

\* The tolerance band on a day's calories, in percent of the daily target.
TolerancePct == 10

DayCalories(plan, d) ==
    plan[d]["Breakfast"].calories + plan[d]["Lunch"].calories
    + plan[d]["Dinner"].calories

\* C9: every day of a generated meal plan sums to within the tolerance of the
\* daily calorie target it was generated for.  Violated: the top-ranked item
\* of every slot is taken however far it is from the per-slot target.
C9_DaySumWithinTolerance ==
    [][ (current_meal_plan = None /\ current_meal_plan' # None) =>
          \A d \in DaySet :
             100 * Abs(DayCalories(current_meal_plan', d) - nutritional_targets'.calories)
                <= TolerancePct * nutritional_targets'.calories ]_vars

\* C10: when the filters leave no candidate other than the current item, the
\* alternatives are the empty sequence, and listing an empty alternatives
\* list leaves the plan unchanged.
C10_EmptyPoolIsEmptyResult ==
    /\ [](shown # None =>
            /\ shown.alternatives \in Seq(MealItems)
            /\ {it \in Candidates(shown.meal_type, user_profile) :
                    it.name # shown.current_meal_name} = {}
                  => shown.alternatives = <<>>)
    /\ [][ (shown' # None /\ shown'.alternatives = <<>>)
             => current_meal_plan' = current_meal_plan ]_vars

\* C10 witness: alternatives listed under a tag no library item carries.
C10_Witness ==
    /\ current_meal_plan # None
    /\ shown # None
    /\ shown.alternatives = <<>>
    /\ user_profile.dietary_restrictions = {"Gluten-Free"}

\* The last request for a workout schedule was answered with a schedule.
Generated == w_last # None /\ w_last.invoked /\ w_last.result.kind = "schedule"

\* C11: for every generated workout schedule and every day in it, the number
\* of the day's exercises times the fixed per-exercise cost does not exceed
\* the requested time_per_session plus the fixed tolerance.
C11_DayTimeWithinBudget ==
    Generated =>
        \A day \in DOMAIN w_last.result.schedule :
            Len(w_last.result.schedule[day].exercises) * ExerciseCost
                <= w_last.request.time_per_session + TimeTolerance

\* A generated day that uses its whole time budget while exercises of its
\* second muscle group are left out.
C11_Witness ==
    /\ Generated
    /\ \E day \in DOMAIN w_last.result.schedule :
          LET workout == w_last.result.schedule[day]
          IN /\ Len(workout.exercises) * ExerciseCost = w_last.request.time_per_session
             /\ \E g \in Range(workout.focus) :
                   \A e \in Range(workout.exercises) : e.muscle_group # g

\* The positions of a schedule: a day and an index into its exercises.
Positions(schedule) ==
    {pos \in (DOMAIN schedule) \X (1..Len(ExerciseLibrary)) :
        pos[2] <= Len(schedule[pos[1]].exercises)}

\* The size of the pool of an exercise's subgroup at the requested fitness
\* level and equipment, and the number of requested days needing its group.
PoolSize(e, request) ==
    Cardinality({k \in 1..Len(ExerciseLibrary) :
        /\ ExerciseLibrary[k].muscle_group = e.muscle_group
        /\ ExerciseLibrary[k].subgroup = e.subgroup
        /\ ExerciseLibrary[k].required_fitness_level = request.fitness_level
        /\ ExerciseLibrary[k].equipment_tier \in Range(request.equipment)})

Demand(e, request) ==
    Cardinality({day \in Range(request.available_days) :
        e.muscle_group \in Range(request.muscle_groups[day])})

C13_ScheduleMatchesRequest ==
    Generated =>
        LET schedule == w_last.result.schedule
            request  == w_last.request
        IN /\ DOMAIN schedule = Range(request.available_days)
           /\ \A day \in DOMAIN schedule :
                 \A e \in Range(schedule[day].exercises) :
                    /\ e \in Range(ExerciseLibrary)
                    /\ <<e.muscle_group, e.subgroup>> \in Subgroups
                    /\ e.muscle_group \in Range(request.muscle_groups[day])
                    /\ e.required_fitness_level = request.fitness_level
                    /\ e.equipment_tier \in Range(request.equipment)

\* The bodyweight beginner request for Chest on Monday and Legs on Wednesday
\* is answered with a schedule of those two days, which the session holds.
C13_Witness ==
    /\ Generated
    /\ w_last.request.equipment = <<"None/Bodyweight">>
    /\ w_last.request.fitness_level = "Beginner"
    /\ DOMAIN w_last.result.schedule = {"Monday", "Wednesday"}
    /\ w_last.result.schedule["Monday"].focus = <<"Chest">>
    /\ w_last.result.schedule["Wednesday"].focus = <<"Legs">>
    /\ Len(w_last.result.schedule["Monday"].exercises) > 1
    /\ current_schedule = w_last.result

\* A day of a request has no library exercise of its selected muscle groups
\* at the requested fitness level and equipment.
EmptyDay(request, day) ==
    \A e \in Range(ExerciseLibrary) :
        ~ /\ e.muscle_group \in Range(request.muscle_groups[day])
          /\ e.required_fitness_level = request.fitness_level
          /\ e.equipment_tier \in Range(request.equipment)

\* C14: a run that invokes generate_workout_plan fails exactly when some
\* available day has no valid exercise for its muscle groups; the failed run
\* returns no schedule, saves nothing and leaves the session without a
\* schedule.
C14_EmptyDayFailsWholeGeneration ==
    [][ (w_last' # None /\ w_last'.invoked) =>
           LET failed == w_last'.result.kind # "schedule"
           IN /\ failed <=> \E day \in Range(w_last'.request.available_days) :
                               EmptyDay(w_last'.request, day)
              /\ failed => /\ w_last'.result.kind = "ConstraintUnsatisfiable"
                           /\ EmptyDay(w_last'.request, w_last'.result.day)
                           /\ DOMAIN w_last'.result = {"kind", "day"}
                           /\ w_last'.returned = None
                           /\ saved_schedule' = saved_schedule
                           /\ current_schedule' = None ]_vars

\* A request whose Monday has exercises and whose Wednesday has none has
\* failed, after an earlier schedule was saved.
C14_Witness ==
    /\ w_last # None
    /\ w_last.invoked
    /\ w_last.result = [kind |-> "ConstraintUnsatisfiable", day |-> "Wednesday"]
    /\ ~EmptyDay(w_last.request, "Monday")
    /\ current_schedule = None
    /\ saved_schedule # None

\* A request with no available day, or with no muscle group on any day.
EmptyRequest(request) ==
    \/ Len(request.available_days) = 0
    \/ \A day \in DOMAIN request.muscle_groups :
          Len(request.muscle_groups[day]) = 0

\* C15: a workout request with empty available_days or empty muscle groups
\* is rejected before generation: generate_workout_plan is not invoked for
\* it, with the submitted or with any other values, and no schedule is
\* saved.
C15_EmptyRequestRejected ==
    [][ (w_last' # None /\ EmptyRequest(w_last'.request)) =>
           /\ ~w_last'.invoked
           /\ w_last'.result = None
           /\ ~w_last'.saved
           /\ saved_schedule' = saved_schedule
           /\ w_last'.message \in {"select a workout day", "select a muscle group"} ]_vars

\* A request with a day and no muscle group was rejected in a session that
\* holds a saved schedule.
C15_Witness ==
    /\ w_last # None
    /\ w_last.request.available_days = <<"Monday">>
    /\ EmptyRequest(w_last.request)
    /\ ~w_last.invoked
    /\ saved_schedule # None
    /\ current_schedule # None

\* C16: the outcome a failed workout request reports to its caller names the
\* kind of the failure: when generation failed because a day had no
\* candidates, generate_new_workout returns a failure of that kind, which is
\* not the value it returns for invalid input.
C16_FailureNamesItsKind ==
    (w_last # None /\ w_last.invoked
        /\ w_last.result.kind = "ConstraintUnsatisfiable") =>
            /\ w_last.returned # None
            /\ w_last.returned.kind = "ConstraintUnsatisfiable"

\* C20: after every step the session's current_schedule is None or a
\* schedule that generate_workout_plan returned for a submitted request and
\* that was saved for the session's user; a run that invokes the engine and
\* fails in generation or in saving leaves it None, a run that succeeds
\* leaves the new schedule, and a rejected request leaves it unchanged.
C20_CurrentScheduleGeneratedAndSaved ==
    [][ /\ current_schedule' # None =>
              /\ current_schedule'.kind = "schedule"
              /\ \E f \in WorkoutChoices :
                    current_schedule' =
                        GenerateWorkoutPlan(f.fitness_level, f.available_days,
                                            f.equipment, f.time_per_session,
                                            f.muscle_groups)
              /\ saved_schedule' = [user_id |-> user_id', schedule |-> current_schedule']
        /\ w_last' # None =>
              /\ (w_last'.invoked /\ ~w_last'.saved) => current_schedule' = None
              /\ (w_last'.invoked /\ w_last'.saved) => current_schedule' = w_last'.result
              /\ ~w_last'.invoked => current_schedule' = current_schedule ]_vars

\* A schedule was generated but its save failed, in a session that held a
\* schedule saved earlier: the session holds none now.
C20_Witness ==
    /\ Generated
    /\ ~w_last.saved
    /\ w_last.message = "failed to save"
    /\ current_schedule = None
    /\ saved_schedule # None
    /\ saved_schedule.schedule # w_last.result

\* C17: every persisted meal plan passes the checks of the Plan Validator:
\* every slot of every day holds a library item and every day's calories are
\* within the tolerance of the daily target saved with the plan.
C17_PersistedPlanPassesValidator ==
    saved_meal_plan # None =>
        /\ DOMAIN saved_meal_plan.meal_plan = DaySet
        /\ \A d \in DaySet :
              /\ DOMAIN saved_meal_plan.meal_plan[d] = MealTypeSet
              /\ \A mt \in MealTypeSet : saved_meal_plan.meal_plan[d][mt] \in MealItems
              /\ 100 * Abs(DayCalories(saved_meal_plan.meal_plan, d) - saved_meal_plan.calories)
                    <= TolerancePct * saved_meal_plan.calories

\* The fields of the session state that hold a user's data.
NoUserData ==
    /\ user_id = None
    /\ username = None
    /\ current_schedule = None
    /\ user_profile = None
    /\ current_meal_plan = None
    /\ nutritional_targets = None

\* C18: Logout leaves is_authenticated false and user_id, username,
\* current_schedule, user_profile, current_meal_plan and nutritional_targets
\* None; a session nobody is logged into holds no user data, and the session
\* a user logs into holds no meal plan, profile, targets or schedule.
C18_LogoutClearsUserData ==
    [][ /\ (is_authenticated /\ ~is_authenticated') => NoUserData'
        /\ ~is_authenticated' => NoUserData'
        /\ (~is_authenticated /\ is_authenticated') =>
              /\ current_schedule' = None
              /\ user_profile' = None
              /\ current_meal_plan' = None
              /\ nutritional_targets' = None ]_vars

\* bob is logged into a session in which alice saved a meal plan and a
\* workout schedule before logging out.
C18_Witness ==
    /\ is_authenticated
    /\ username = Some("bob")
    /\ saved_meal_plan # None
    /\ saved_meal_plan.user_id = UserId("alice")
    /\ saved_schedule # None
    /\ saved_schedule.user_id = Some(UserId("alice"))
    /\ current_meal_plan = None
    /\ current_schedule = None
    /\ user_profile = None
    /\ nutritional_targets = None

\* C19: in every reachable session state an authenticated session has its
\* user_id and its username set.
C19_AuthenticatedHasIdentity ==
    is_authenticated => (user_id # None /\ username # None)

====
